---- MODULE Spec2Model ----
(***************************************************************************)
(* Rusted Warfare Auto-Coder: the INI validator (validateIni), the unit    *)
(* generation / edit services (geminiService.ts) and the App component's   *)
(* Mod state (handleSendMessage, handleEditCode, handleUpdateModName).     *)
(* Text is kept as TLA+ strings; a character is a string of length one.    *)
(***************************************************************************)
EXTENDS Integers, Sequences, FiniteSets, TLC

\* ------------------------------------------------------------------------
\* Bounds of the model
\* ------------------------------------------------------------------------
\* longest document (in lines) handed to validateIni
MaxLines == 4
\* operations (generate, edit, rename, failed image selection) started in one session
MaxOps == 3
\* operations started in one session when the operations' termination is checked
MaxFairOps == 2

\* ------------------------------------------------------------------------
\* JavaScript string primitives used by the code
\* ------------------------------------------------------------------------
Ch(s, i) == SubSeq(s, i, i)

\* \s of the regular expressions and the characters trim() strips
WhiteSpace == {" ", "\t", "\r", "\n", "\f"}

\* characters "." does not match
LineTerminators == {"\n", "\r"}

LowerLetters == "abcdefghijklmnopqrstuvwxyz"
UpperLetters == "ABCDEFGHIJKLMNOPQRSTUVWXYZ"
Digits == "0123456789"

\* the class [a-zA-Z0-9_]
IdentChars ==
    {Ch(LowerLetters, i) : i \in 1..26} \cup {Ch(UpperLetters, i) : i \in 1..26}
        \cup {Ch(Digits, i) : i \in 1..10} \cup {"_"}

UpperSet == {Ch(UpperLetters, i) : i \in 1..26}

LowerChar(c) ==
    IF c \in UpperSet
    THEN Ch(LowerLetters, CHOOSE i \in 1..26 : Ch(UpperLetters, i) = c)
    ELSE c

RECURSIVE toLowerCase(_)
toLowerCase(s) ==
    IF Len(s) = 0 THEN "" ELSE LowerChar(Ch(s, 1)) \o toLowerCase(Tail(s))

\* first index >= i of s that is not white space (Len(s)+1 if none)
RECURSIVE SkipWs(_, _)
SkipWs(s, i) ==
    IF i <= Len(s) /\ Ch(s, i) \in WhiteSpace THEN SkipWs(s, i + 1) ELSE i

\* last index <= j of s that is not white space (0 if none)
RECURSIVE SkipWsBack(_, _)
SkipWsBack(s, j) ==
    IF j >= 1 /\ Ch(s, j) \in WhiteSpace THEN SkipWsBack(s, j - 1) ELSE j

\* first index >= i of s that is not an identifier character
RECURSIVE SkipIdent(_, _)
SkipIdent(s, i) ==
    IF i <= Len(s) /\ Ch(s, i) \in IdentChars THEN SkipIdent(s, i + 1) ELSE i

trim(s) ==
    LET a == SkipWs(s, 1)
        b == SkipWsBack(s, Len(s))
    IN  IF a > b THEN "" ELSE SubSeq(s, a, b)

startsWith(s, p) == Len(s) >= Len(p) /\ SubSeq(s, 1, Len(p)) = p

\* index of the first "\n" of s at or after i (0 if none)
RECURSIVE IndexOfNewline(_, _)
IndexOfNewline(s, i) ==
    IF i > Len(s) THEN 0
    ELSE IF Ch(s, i) = "\n" THEN i ELSE IndexOfNewline(s, i + 1)

\* s.split('\n')
RECURSIVE split(_)
split(s) ==
    LET k == IndexOfNewline(s, 1)
    IN  IF k = 0 THEN <<s>>
        ELSE <<SubSeq(s, 1, k - 1)>> \o split(SubSeq(s, k + 1, Len(s)))

\* ------------------------------------------------------------------------
\* validateIni: the two regular expressions
\* ------------------------------------------------------------------------
NoMatch == [matched |-> FALSE, g1 |-> ""]

\* /^\s*\[\s*([a-zA-Z0-9_]+)\s*\]\s*$/
sectionMatch(t) ==
    LET i0 == SkipWs(t, 1)
        i1 == SkipWs(t, i0 + 1)
        i2 == SkipIdent(t, i1)
        i3 == SkipWs(t, i2)
        i4 == SkipWs(t, i3 + 1)
    IN  IF /\ i0 <= Len(t) /\ Ch(t, i0) = "["
           /\ i2 > i1
           /\ i3 <= Len(t) /\ Ch(t, i3) = "]"
           /\ i4 = Len(t) + 1
        THEN [matched |-> TRUE, g1 |-> SubSeq(t, i1, i2 - 1)]
        ELSE NoMatch

\* TRUE iff no character of s from p on is a line terminator
RECURSIVE NoTerminatorFrom(_, _)
NoTerminatorFrom(s, p) ==
    \/ p > Len(s)
    \/ Ch(s, p) \notin LineTerminators /\ NoTerminatorFrom(s, p + 1)

\* /^\s*([a-zA-Z0-9_]+)\s*:\s*(.+)$/
kvMatch(t) ==
    LET i0 == SkipWs(t, 1)
        i1 == SkipIdent(t, i0)
        i2 == SkipWs(t, i1)
        i3 == SkipWs(t, i2 + 1)
        last == IF i3 < Len(t) THEN i3 ELSE Len(t)
    IN  IF /\ i1 > i0
           /\ i2 <= Len(t) /\ Ch(t, i2) = ":"
           /\ \E p \in (i2 + 1)..last : NoTerminatorFrom(t, p)
        THEN [matched |-> TRUE, g1 |-> SubSeq(t, i0, i1 - 1)]
        ELSE NoMatch

\* ------------------------------------------------------------------------
\* validateIni: results
\* ------------------------------------------------------------------------
NoError == [msg |-> "", line |-> 0, text |-> ""]
Valid == [isValid |-> TRUE, error |-> NoError]
Failure(m) == [isValid |-> FALSE, error |-> [msg |-> m, line |-> 0, text |-> ""]]

ErrEmpty == Failure("Generated code is empty.")
ErrNoCore == Failure("The generated code is missing the required '[core]' section.")
ErrNoName == Failure("The '[core]' section is missing the required 'name' key.")
ErrNoGraphics ==
    Failure("The generated code is missing the required '[graphics]' section.")
ErrNoImage == Failure("The '[graphics]' section is missing the required 'image' key.")

\* variant of ErrSyntax that cites the loop index as it is (0-based)
ErrSyntaxZeroBased(index, trimmedLine) ==
    [isValid |-> FALSE,
     error |-> [msg |-> "Invalid syntax on line", line |-> index, text |-> trimmedLine]]

\* `Invalid syntax on line ${index + 1}. Expected 'key: value' format, but found: "${trimmedLine}"`
ErrSyntax(index, trimmedLine) ==
    [isValid |-> FALSE,
     error |-> [msg |-> "Invalid syntax on line", line |-> index + 1, text |-> trimmedLine]]

\* ------------------------------------------------------------------------
\* validateIni: the scan
\* ------------------------------------------------------------------------
\* the locals of validateIni before the loop
ScanStart ==
    [inCoreSection |-> FALSE, inGraphicsSection |-> FALSE,
     foundCoreName |-> FALSE, foundGraphicsImage |-> FALSE,
     currentSection |-> "", returned |-> FALSE, result |-> Valid]

\* variant of ScanLine that compares the key as written (no toLowerCase)
ScanLineKeyAsWritten(st, index, line) ==
    LET trimmedLine == trim(line)
        sm == sectionMatch(trimmedLine)
        kv == kvMatch(trimmedLine)
        sec == toLowerCase(sm.g1)
        key == kv.g1
    IN  IF trimmedLine = "" \/ startsWith(trimmedLine, "#") THEN st
        ELSE IF sm.matched
        THEN [st EXCEPT !.currentSection = sec,
                        !.inCoreSection = @ \/ sec = "core",
                        !.inGraphicsSection = @ \/ sec = "graphics"]
        ELSE IF ~kv.matched
        THEN [st EXCEPT !.returned = TRUE, !.result = ErrSyntax(index, trimmedLine)]
        ELSE [st EXCEPT
                !.foundCoreName = @ \/ (st.currentSection = "core" /\ key = "name"),
                !.foundGraphicsImage =
                    @ \/ (st.currentSection = "graphics" /\ key = "image")]

\* variant of ScanLine that notes a syntax error and goes on with the scan
ScanLineKeepsScanning(st, index, line) ==
    LET trimmedLine == trim(line)
        sm == sectionMatch(trimmedLine)
        kv == kvMatch(trimmedLine)
        sec == toLowerCase(sm.g1)
        key == toLowerCase(kv.g1)
    IN  IF trimmedLine = "" \/ startsWith(trimmedLine, "#") THEN st
        ELSE IF sm.matched
        THEN [st EXCEPT !.currentSection = sec,
                        !.inCoreSection = @ \/ sec = "core",
                        !.inGraphicsSection = @ \/ sec = "graphics"]
        ELSE IF ~kv.matched
        THEN [st EXCEPT !.result = ErrSyntax(index, trimmedLine)]
        ELSE [st EXCEPT
                !.foundCoreName = @ \/ (st.currentSection = "core" /\ key = "name"),
                !.foundGraphicsImage =
                    @ \/ (st.currentSection = "graphics" /\ key = "image")]


\* variant of ScanLine that counts a name or image key under any section
ScanLineAnySection(st, index, line) ==
    LET trimmedLine == trim(line)
        sm == sectionMatch(trimmedLine)
        kv == kvMatch(trimmedLine)
        sec == toLowerCase(sm.g1)
        key == toLowerCase(kv.g1)
    IN  IF trimmedLine = "" \/ startsWith(trimmedLine, "#") THEN st
        ELSE IF sm.matched
        THEN [st EXCEPT !.currentSection = sec,
                        !.inCoreSection = @ \/ sec = "core",
                        !.inGraphicsSection = @ \/ sec = "graphics"]
        ELSE IF ~kv.matched
        THEN [st EXCEPT !.returned = TRUE, !.result = ErrSyntax(index, trimmedLine)]
        ELSE [st EXCEPT
                !.foundCoreName = @ \/ key = "name",
                !.foundGraphicsImage = @ \/ key = "image"]

\* variant of ScanLine that compares the section name as written (no toLowerCase)
ScanLineSectionAsWritten(st, index, line) ==
    LET trimmedLine == trim(line)
        sm == sectionMatch(trimmedLine)
        kv == kvMatch(trimmedLine)
        sec == sm.g1
        key == toLowerCase(kv.g1)
    IN  IF trimmedLine = "" \/ startsWith(trimmedLine, "#") THEN st
        ELSE IF sm.matched
        THEN [st EXCEPT !.currentSection = sec,
                        !.inCoreSection = @ \/ sec = "core",
                        !.inGraphicsSection = @ \/ sec = "graphics"]
        ELSE IF ~kv.matched
        THEN [st EXCEPT !.returned = TRUE, !.result = ErrSyntax(index, trimmedLine)]
        ELSE [st EXCEPT
                !.foundCoreName = @ \/ (st.currentSection = "core" /\ key = "name"),
                !.foundGraphicsImage =
                    @ \/ (st.currentSection = "graphics" /\ key = "image")]

\* one iteration of the for loop: index is 0-based, line is lines[index]
ScanLine(st, index, line) ==
    LET trimmedLine == trim(line)
        sm == sectionMatch(trimmedLine)
        kv == kvMatch(trimmedLine)
        sec == toLowerCase(sm.g1)
        key == toLowerCase(kv.g1)
    IN  IF trimmedLine = "" \/ startsWith(trimmedLine, "#") THEN st
        ELSE IF sm.matched
        THEN [st EXCEPT !.currentSection = sec,
                        !.inCoreSection = @ \/ sec = "core",
                        !.inGraphicsSection = @ \/ sec = "graphics"]
        ELSE IF ~kv.matched
        THEN [st EXCEPT !.returned = TRUE, !.result = ErrSyntax(index, trimmedLine)]
        ELSE [st EXCEPT
                !.foundCoreName = @ \/ (st.currentSection = "core" /\ key = "name"),
                !.foundGraphicsImage =
                    @ \/ (st.currentSection = "graphics" /\ key = "image")]

\* variant of StructuralResult that looks at [graphics] before [core]
StructuralResultGraphicsFirst(st) ==
    IF ~st.inGraphicsSection THEN ErrNoGraphics
    ELSE IF ~st.foundGraphicsImage THEN ErrNoImage
    ELSE IF ~st.inCoreSection THEN ErrNoCore
    ELSE IF ~st.foundCoreName THEN ErrNoName
    ELSE Valid


\* variant of StructuralResult that tests the two keys before the two sections
StructuralResultKeysFirst(st) ==
    IF ~st.foundCoreName THEN ErrNoName
    ELSE IF ~st.foundGraphicsImage THEN ErrNoImage
    ELSE IF ~st.inCoreSection THEN ErrNoCore
    ELSE IF ~st.inGraphicsSection THEN ErrNoGraphics
    ELSE Valid

\* the four checks after the loop
StructuralResult(st) ==
    IF ~st.inCoreSection THEN ErrNoCore
    ELSE IF ~st.foundCoreName THEN ErrNoName
    ELSE IF ~st.inGraphicsSection THEN ErrNoGraphics
    ELSE IF ~st.foundGraphicsImage THEN ErrNoImage
    ELSE Valid

\* a JavaScript value handed to validateIni
StringValue(s) == [type |-> "string", str |-> s, truthy |-> s # ""]
Undefined == [type |-> "undefined", str |-> "", truthy |-> FALSE]
NumberValue(nonzero) == [type |-> "number", str |-> "", truthy |-> nonzero]

\* variant of IsEmptyInput without the trim() test
IsEmptyInputNoTrim(v) == ~v.truthy \/ v.type # "string"

\* !iniContent || typeof iniContent !== 'string' || iniContent.trim() === ''
IsEmptyInput(v) == ~v.truthy \/ v.type # "string" \/ trim(v.str) = ""

RECURSIVE ScanFrom(_, _, _)
ScanFrom(st, lines, index) ==
    IF st.returned \/ index >= Len(lines) THEN st
    ELSE ScanFrom(ScanLine(st, index, lines[index + 1]), lines, index + 1)

validateIni(v) ==
    IF IsEmptyInput(v) THEN ErrEmpty
    ELSE LET st == ScanFrom(ScanStart, split(v.str), 0)
         IN  IF st.returned THEN st.result ELSE StructuralResult(st)

\* ------------------------------------------------------------------------
\* State
\* ------------------------------------------------------------------------
VARIABLES
    \* one call of validateIni, statement by statement
    iniContent,     \* the argument
    vPc,            \* "idle", "start", "loop", "checks", "done"
    vIndex,         \* the loop's index (0-based); also the number of lines scanned
    vScan,          \* the locals of validateIni
    vResult,        \* the value returned
    \* the App component (useState)
    chatHistory,        \* ChatMessage[]
    selectedImage,      \* data URL of the attached image, "" for null
    selectedAudio,      \* data URL of the attached audio, "" for null
    currentMod,         \* Mod | null
    isLoading,
    isAutoFixEnabled,
    \* the asynchronous operations in flight, each with its closure and locals
    ops,
    \* operations started so far; read as the clock by Date.now()
    opCount

valVars == <<iniContent, vPc, vIndex, vScan, vResult>>
appVars ==
    <<chatHistory, selectedImage, selectedAudio, currentMod, isLoading,
      isAutoFixEnabled, ops, opCount>>
vars == <<valVars, appVars>>

\* ------------------------------------------------------------------------
\* The App component: data
\* ------------------------------------------------------------------------
\* Mod | null
NoMod == [exists |-> FALSE, name |-> "", units |-> <<>>]

Last(seq) == seq[Len(seq)]

\* currentMod?.units[currentMod.units.length - 1]
HasLatestUnit(mod) == mod.exists /\ Len(mod.units) > 0
latestUnit(mod) == Last(mod.units)

\* currentMod?.units.map(u => u.unitName) ?? []
UnitNames(mod) == [k \in 1..Len(mod.units) |-> mod.units[k].unitName]

\* s.includes(sub)
includes(s, sub) ==
    \E i \in 1..(Len(s) - Len(sub) + 1) : SubSeq(s, i, i + Len(sub) - 1) = sub

\* s.replace(/[^a-zA-Z0-9_]/g, '')
RECURSIVE Sanitize(_)
Sanitize(s) ==
    IF Len(s) = 0 THEN ""
    ELSE (IF Ch(s, 1) \in IdentChars THEN Ch(s, 1) ELSE "") \o Sanitize(Tail(s))

\* the texts of the chat messages are kept up to their first sentence
WelcomeMessage ==
    [role |-> "ai", content |-> "Welcome to the Rusted Warfare Auto-Coder!",
     imageUrl |-> "", audioUrl |-> ""]

UserMessage(content, imageUrl, audioUrl) ==
    [role |-> "user", content |-> content, imageUrl |-> imageUrl, audioUrl |-> audioUrl]

AiMessage(content) ==
    [role |-> "ai", content |-> content, imageUrl |-> "", audioUrl |-> ""]

AppInit ==
    /\ chatHistory = <<WelcomeMessage>>
    /\ selectedImage = ""
    /\ selectedAudio = ""
    /\ currentMod = NoMod
    /\ isLoading = FALSE
    /\ isAutoFixEnabled = TRUE
    /\ ops = <<>>
    /\ opCount = 0

\* ------------------------------------------------------------------------
\* What the user and the external services may supply
\* ------------------------------------------------------------------------
UserTexts == {"a fast tank"}
EditInstructions == {" ", "make it cheaper"}
ModNameInputs == {"", "Super Tanks"}

ImageDataUrl == "data:image/png;base64,SU1H"
ImageMimeType == "image/png"
AudioDataUrl == "data:audio/mpeg;base64,QVVE"

\* imageBytes returned by the image model
ImageBytes == {"UE5H"}

GoodIni(name) == "[core]\nname: " \o name \o "\n[graphics]\nimage: " \o name \o ".png"

ImagePrompt(imageName) == [imageName |-> imageName, prompt |-> "sprite"]

Parsed(unitName, ini, hasPrompts, prompts, hasSounds, sounds) ==
    [unitName |-> unitName, iniFileContent |-> ini,
     hasImagePrompts |-> hasPrompts, imagePrompts |-> prompts,
     hasSoundFileNames |-> hasSounds, soundFileNames |-> sounds]

NoParsed == Parsed("", "", FALSE, <<>>, FALSE, <<>>)

\* what JSON.parse yields for the texts the model returns
ParsedResponses ==
    { Parsed("jeep", "[core]\nname: baz\n[graphics]\nimage: jeep.png\nimage_turret: t.png",
             TRUE, <<ImagePrompt("jeep.png"), ImagePrompt("x.png")>>, TRUE, <<"s.mp3">>),
      Parsed("tank", "[core]\nprice: 100\n[graphics]\nimage: tank.png",
             TRUE, <<>>, FALSE, <<>>),
      Parsed("", GoodIni("tank"), TRUE, <<ImagePrompt("tank.png")>>, FALSE, <<>>),
      Parsed("tank", "", TRUE, <<ImagePrompt("tank.png")>>, FALSE, <<>>),
      Parsed("tank", GoodIni("tank"), FALSE, <<>>, FALSE, <<>>) }

Throw(message) == [kind |-> "throw", message |-> message, text |-> "", parsed |-> NoParsed]
Text(t) == [kind |-> "text", message |-> "", text |-> t, parsed |-> NoParsed]
Json(r) == [kind |-> "json", message |-> "", text |-> "", parsed |-> r]

TransportErrors == {Throw("fetch failed")}

\* outcomes of ai.models.generateContent for a generation prompt
GenerateOutcomes ==
    TransportErrors \cup {Text("not json")} \cup {Json(r) : r \in ParsedResponses}

\* outcomes of the corrector call, before .trim()
CorrectorOutcomes ==
    TransportErrors
        \cup {Text(GoodIni("tank") \o "\n")}

\* outcomes of the edit call, before .trim()
EditOutcomes ==
    TransportErrors
        \cup {Text(" [core]\nname: tank\nprice: 5\n[graphics]\nimage: tank.png\n")}

\* outcomes of the rename call, before .trim() and the sanitising
RenameOutcomes ==
    TransportErrors \cup {Text(" Super Tanks!"), Text("9 lives!")}

\* outcomes of ai.models.generateImages
ImageOutcomes == TransportErrors \cup {Text(b) : b \in ImageBytes}

\* ------------------------------------------------------------------------
\* validateIni as a state machine
\* ------------------------------------------------------------------------
\* the lines documents are made of
VLinePool ==
    <<"[core]", "name: x", "[graphics]", "image: a", "", "# c",
      "[core]name: x", "Name : y">>

RECURSIVE DocsOfLength(_)
DocsOfLength(n) ==
    IF n = 1 THEN {VLinePool[k] : k \in 1..Len(VLinePool)}
    ELSE {d \o "\n" \o VLinePool[k] : d \in DocsOfLength(n - 1), k \in 1..Len(VLinePool)}

VDocuments == UNION {DocsOfLength(n) : n \in 1..MaxLines}

VInputs ==
    {StringValue(d) : d \in VDocuments}
        \cup {StringValue(" \t"), StringValue(" \r\n "), Undefined,
              NumberValue(FALSE), NumberValue(TRUE)}

ValIdle ==
    /\ iniContent = Undefined
    /\ vPc = "idle"
    /\ vIndex = 0
    /\ vScan = ScanStart
    /\ vResult = Valid

InitV ==
    /\ iniContent \in VInputs
    /\ vPc = "start"
    /\ vIndex = 0
    /\ vScan = ScanStart
    /\ vResult = Valid
    /\ AppInit

\* lines 207-217: the emptiness test, the split, the locals
VEnter ==
    /\ vPc = "start"
    /\ IF IsEmptyInput(iniContent)
       THEN vPc' = "done" /\ vResult' = ErrEmpty
       ELSE vPc' = "loop" /\ vResult' = vResult
    /\ UNCHANGED <<iniContent, vIndex, vScan, appVars>>

\* lines 219-247: one iteration of the loop
VIterate ==
    /\ vPc = "loop"
    /\ vIndex < Len(split(iniContent.str))
    /\ LET st == ScanLine(vScan, vIndex, split(iniContent.str)[vIndex + 1])
       IN  /\ vScan' = st
           /\ vIndex' = vIndex + 1
           /\ IF st.returned
              THEN vPc' = "done" /\ vResult' = st.result
              ELSE vPc' = "loop" /\ vResult' = vResult
    /\ UNCHANGED <<iniContent, appVars>>

\* lines 249-265: the structural checks
VFinish ==
    /\ vPc = "loop"
    /\ vIndex = Len(split(iniContent.str))
    /\ vPc' = "done"
    /\ vResult' = StructuralResult(vScan)
    /\ UNCHANGED <<iniContent, vIndex, vScan, appVars>>

NextV ==
    \/ VEnter
    \/ VIterate
    \/ VFinish

SpecV == InitV /\ [][NextV]_vars

\* documents whose section and key names are written in mixed letter case
\* (the values are lower-case throughout)
CaseLinePool ==
    <<"[Core]", "NAME: x", "[GRAPHICS]", "Image : a", "[core]", "image: a">>

RECURSIVE CaseDocsOfLength(_)
CaseDocsOfLength(n) ==
    IF n = 1 THEN {CaseLinePool[k] : k \in 1..Len(CaseLinePool)}
    ELSE {d \o "\n" \o CaseLinePool[k] :
            d \in CaseDocsOfLength(n - 1), k \in 1..Len(CaseLinePool)}

CaseDocuments == UNION {CaseDocsOfLength(n) : n \in 1..MaxLines}

InitCase ==
    /\ iniContent \in {StringValue(d) : d \in CaseDocuments}
    /\ vPc = "start"
    /\ vIndex = 0
    /\ vScan = ScanStart
    /\ vResult = Valid
    /\ AppInit

\* validateIni on the mixed-case documents
SpecCase == InitCase /\ [][NextV]_vars

\* ------------------------------------------------------------------------
\* Properties of validateIni (checked under SpecV)
\* ------------------------------------------------------------------------
\* The kinds of line of a document, read off the text and the two patterns
\* only (not off the locals of the scan).
IsBlankLine(l) == trim(l) = ""
IsCommentLine(l) == startsWith(trim(l), "#")
IsHeaderLine(l) ==
    LET t == trim(l)
    IN  t # "" /\ ~startsWith(t, "#") /\ sectionMatch(t).matched
IsKvLine(l) ==
    LET t == trim(l)
    IN  /\ t # "" /\ ~startsWith(t, "#") /\ ~sectionMatch(t).matched
        /\ kvMatch(t).matched
IsSyntaxErrorLine(l) ==
    LET t == trim(l)
    IN  /\ t # "" /\ ~startsWith(t, "#") /\ ~sectionMatch(t).matched
        /\ ~kvMatch(t).matched

\* section and key names are case-insensitive identifiers
HeaderNamed(l, s) ==
    LET t == trim(l)
    IN  /\ t # "" /\ ~startsWith(t, "#") /\ sectionMatch(t).matched
        /\ toLowerCase(sectionMatch(t).g1) = s
KeyNamed(l, k) ==
    LET t == trim(l)
    IN  /\ t # "" /\ ~startsWith(t, "#") /\ ~sectionMatch(t).matched
        /\ kvMatch(t).matched
        /\ toLowerCase(kvMatch(t).g1) = k

HasSection(lines, s) == \E h \in 1..Len(lines) : HeaderNamed(lines[h], s)

\* key k on a line whose most recent header is [s]
HasKeyInSection(lines, s, k) ==
    \E h \in 1..Len(lines), j \in 1..Len(lines) :
        /\ h < j
        /\ HeaderNamed(lines[h], s)
        /\ KeyNamed(lines[j], k)
        /\ \A m \in (h + 1)..(j - 1) : ~IsHeaderLine(lines[m])

WellFormed(lines) == \A i \in 1..Len(lines) : ~IsSyntaxErrorLine(lines[i])

AllWhite(s) == \A i \in 1..Len(s) : Ch(s, i) \in WhiteSpace

\* the document given to validateIni, as lines
VLines == split(iniContent.str)

VDone == vPc = "done" /\ iniContent.type = "string"

\* the result is the syntax error of line i (1-based) of the document
CitesLine(result, lines, i) ==
    /\ result.isValid = FALSE
    /\ result.error.msg = "Invalid syntax on line"
    /\ result.error.line = i
    /\ result.error.text = trim(lines[i])

CompleteDocument(lines) ==
    /\ WellFormed(lines)
    /\ HasKeyInSection(lines, "core", "name")
    /\ HasKeyInSection(lines, "graphics", "image")

\* C3: for every well-formed document (blank lines, comments, section headers
\* and key/value lines only) that has a name key under [core] and an image key
\* under [graphics], validateIni returns isValid: true.
WellFormedCompleteIsValid ==
    (VDone /\ CompleteDocument(VLines)) => vResult.isValid = TRUE

\* C3 witness: validateIni has returned for such a document.
WellFormedCompleteValidated ==
    VDone /\ CompleteDocument(VLines) /\ vIndex = Len(VLines)

\* C4 as stated: every document without a [core] section gets the
\* missing-[core] error, also when it holds lines that are neither headers
\* nor key/value pairs.
MissingCoreAlwaysReported ==
    (VDone /\ ~AllWhite(iniContent.str) /\ ~HasSection(VLines, "core"))
        => vResult = ErrNoCore

\* C4 as amended: a non-blank document without a [core] section and without a
\* syntax-error line gets the missing-[core] error; when it holds a
\* syntax-error line the result is a syntax error instead, and a blank
\* document gets the empty-code error.
MissingCoreReportedUnlessSyntaxError ==
    (VDone /\ ~HasSection(VLines, "core")) =>
        /\ AllWhite(iniContent.str) => vResult = ErrEmpty
        /\ (~AllWhite(iniContent.str) /\ WellFormed(VLines)) => vResult = ErrNoCore
        /\ (~AllWhite(iniContent.str) /\ ~WellFormed(VLines)) =>
              (~vResult.isValid /\ vResult.error.msg = "Invalid syntax on line")

\* C4 witness: a well-formed document with keys but no [core] header was
\* scanned to its end.
MissingCoreDocumentScanned ==
    /\ VDone /\ ~AllWhite(iniContent.str) /\ ~HasSection(VLines, "core")
    /\ WellFormed(VLines)
    /\ \E i \in 1..Len(VLines) : KeyNamed(VLines[i], "name")
    /\ vIndex = Len(VLines)

\* C5 as stated: every line that is neither blank, comment, header nor
\* key/value pair is cited by the result: its 1-based index and its text.
EverySyntaxErrorLineCited ==
    VDone => \A i \in 1..Len(VLines) :
                IsSyntaxErrorLine(VLines[i]) => CitesLine(vResult, VLines, i)

\* C5 as amended: the first such line of the document is cited by the
\* result, with its 1-based index in the document (blank and comment lines
\* counted) and its trimmed text.
FirstSyntaxErrorLineCited ==
    VDone => \A i \in 1..Len(VLines) :
                (/\ IsSyntaxErrorLine(VLines[i])
                 /\ \A j \in 1..(i - 1) : ~IsSyntaxErrorLine(VLines[j]))
                    => CitesLine(vResult, VLines, i)

\* C5 witness: the line "[core]name: x" was met after a blank line and a
\* comment line.
SyntaxErrorAfterBlankAndComment ==
    /\ VDone
    /\ \E i \in 3..Len(VLines) :
          /\ VLines[i] = "[core]name: x"
          /\ \A j \in 1..(i - 1) : ~IsSyntaxErrorLine(VLines[j])
          /\ \E j \in 1..(i - 1) : IsBlankLine(VLines[j])
          /\ \E j \in 1..(i - 1) : IsCommentLine(VLines[j])
          /\ vIndex = i

\* C6: for an empty string, a whitespace-only string, undefined or a
\* non-string value validateIni returns the error "Generated code is empty."
\* and scans no line.
EmptyInputRejectedWithoutScan ==
    (iniContent.type # "string" \/ AllWhite(iniContent.str)) =>
        /\ vPc \in {"start", "done"}
        /\ vIndex = 0
        /\ vScan = ScanStart
        /\ vPc = "done" =>
              (vResult.isValid = FALSE
                 /\ vResult.error.msg = "Generated code is empty.")

\* C6 witness: validateIni has returned for a string of white space only.
WhitespaceInputRejected ==
    /\ vPc = "done"
    /\ iniContent.type = "string" /\ Len(iniContent.str) > 0
    /\ AllWhite(iniContent.str)

\* index (1-based) of the first syntax-error line of a document that has one
FirstSyntaxErrorLine(lines) ==
    LET errors == {i \in 1..Len(lines) : IsSyntaxErrorLine(lines[i])}
    IN  CHOOSE i \in errors : \A j \in errors : i <= j

StructuralErrors == {ErrNoCore, ErrNoName, ErrNoGraphics, ErrNoImage}

\* C22: when the document holds a syntax-error line, validateIni returns the
\* error of the first such line in document order and evaluates none of the
\* four structural checks, whatever sections or keys are missing: it returns
\* from inside the loop at that line and the result is no structural error.
SyntaxErrorPreemptsStructuralChecks ==
    VDone =>
        LET lines == VLines
            first == FirstSyntaxErrorLine(lines)
        IN  ~WellFormed(lines) =>
                /\ vIndex = first
                /\ vScan.returned
                /\ CitesLine(vResult, lines, first)
                /\ vResult \notin StructuralErrors

\* C22 witness: validateIni has returned for a document that lacks [core] and
\* [graphics], holds two syntax-error lines and has lines left unscanned.
SyntaxErrorInIncompleteDocument ==
    /\ VDone /\ ~WellFormed(VLines)
    /\ ~HasSection(VLines, "core") /\ ~HasSection(VLines, "graphics")
    /\ vIndex < Len(VLines)
    /\ \E j \in (vIndex + 1)..Len(VLines) : IsSyntaxErrorLine(VLines[j])


\* C23: for a document without syntax errors validateIni reports exactly the
\* first failing structural check in the fixed order: missing [core] section,
\* [core] missing name, missing [graphics] section, [graphics] missing image;
\* a document missing both [core] and [graphics] gets the [core] error.
FirstFailingStructuralCheckReported ==
    (VDone /\ ~AllWhite(iniContent.str)) =>
        LET lines == VLines
        IN  WellFormed(lines) =>
                vResult =
                    IF ~HasSection(lines, "core") THEN ErrNoCore
                    ELSE IF ~HasKeyInSection(lines, "core", "name") THEN ErrNoName
                    ELSE IF ~HasSection(lines, "graphics") THEN ErrNoGraphics
                    ELSE IF ~HasKeyInSection(lines, "graphics", "image") THEN ErrNoImage
                    ELSE Valid

\* C23 witness: validateIni has returned for a well-formed document with
\* key/value lines but neither a [core] nor a [graphics] header.
BothSectionsMissingScanned ==
    /\ VDone /\ ~AllWhite(iniContent.str) /\ WellFormed(VLines)
    /\ ~HasSection(VLines, "core") /\ ~HasSection(VLines, "graphics")
    /\ \E i \in 1..Len(VLines) : KeyNamed(VLines[i], "image")
    /\ vIndex = Len(VLines)

\* the name of the most recent header among the lines (the empty string if none)
MostRecentSection(lines) ==
    LET headers == {h \in 1..Len(lines) : IsHeaderLine(lines[h])}
    IN  IF headers = {} THEN ""
        ELSE LET h == CHOOSE h \in headers : \A g \in headers : g <= h
             IN  toLowerCase(sectionMatch(trim(lines[h])).g1)

\* key k stands on a line whose most recent header is [s]
KeyUnderSection(lines, s, k) ==
    \E j \in 1..Len(lines) :
        KeyNamed(lines[j], k) /\ MostRecentSection(SubSeq(lines, 1, j - 1)) = s

\* the lines the scan has gone through
VScanned == SubSeq(VLines, 1, vIndex)

\* C24: validateIni counts a name key only when the most recently seen
\* section header is core and an image key only when it is graphics: a name
\* or image key before any header or under another section does not satisfy
\* the check, and a section's scope ends at the next header.
KeysCountedInOwnSectionOnly ==
    (VDone /\ ~AllWhite(iniContent.str)) =>
        LET scanned == VScanned
        IN  /\ vScan.currentSection = MostRecentSection(scanned)
            /\ vScan.foundCoreName = KeyUnderSection(scanned, "core", "name")
            /\ vScan.foundGraphicsImage = KeyUnderSection(scanned, "graphics", "image")
            /\ vResult.isValid =>
                  /\ vIndex = Len(VLines)
                  /\ KeyUnderSection(scanned, "core", "name")
                  /\ KeyUnderSection(scanned, "graphics", "image")

\* C24 witness: validateIni has returned for a well-formed document that has
\* both sections and a name key, but the name key stands before any header
\* or under [graphics].
NameKeyOutsideCoreScanned ==
    /\ VDone /\ WellFormed(VLines)
    /\ HasSection(VLines, "core") /\ HasSection(VLines, "graphics")
    /\ \E i \in 1..Len(VLines) : KeyNamed(VLines[i], "name")
    /\ ~HasKeyInSection(VLines, "core", "name")
    /\ vIndex = Len(VLines)

\* ------------------------------------------------------------------------
\* Letter case of section and key names (checked under SpecCase)
\* ------------------------------------------------------------------------
\* C25: validateIni treats section names and key names case-insensitively: a
\* document whose headers and keys differ from core, graphics, name and image
\* only in letter case gets the same result as the lower-case document.
LetterCaseOfNamesIgnored ==
    vPc = "done" => vResult = validateIni(StringValue(toLowerCase(iniContent.str)))

\* C25 witness: validateIni has returned for a complete document none of
\* whose headers and keys is written in lower case.
UpperCaseDocumentValidated ==
    /\ vPc = "done" /\ vIndex = Len(VLines)
    /\ CompleteDocument(VLines)
    /\ \A i \in 1..Len(VLines) : VLines[i] # toLowerCase(VLines[i])

\* ------------------------------------------------------------------------
\* geminiService.ts: the operations' locals and results
\* ------------------------------------------------------------------------
NoUnit ==
    [id |-> "", unitName |-> "", iniFile |-> [name |-> "", content |-> ""],
     images |-> <<>>, sounds |-> <<>>]

\* an operation in flight: what its closure captured and its locals
NewOp(kind) ==
    [kind |-> kind, pc |-> "awaitModel",
     autoFix |-> isAutoFixEnabled,
     audio |-> "", image |-> "",
     existingUnitNames |-> <<>>,
     mod |-> currentMod,
     parsedResponse |-> NoParsed,
     initialIni |-> "",
     correctorCalls |-> 0,
     pending |-> {}, images |-> <<>>,
     unit |-> NoUnit, text |-> "", error |-> ""]

RemoveAt(seq, i) == SubSeq(seq, 1, i - 1) \o SubSeq(seq, i + 1, Len(seq))

\* the catch blocks of generateUnit and generateUnitFromImage
ServiceError(message) ==
    IF includes(message, "JSON")
    THEN "The AI returned an invalid JSON response. Please try rephrasing your request."
    ELSE message

JsonParseError == "Unexpected token in JSON at position 0"
MissingFieldsError == "AI response was missing required fields."

\* variant of MissingFields that also refuses an empty imagePrompts list
MissingFieldsOrNoPrompts(r) ==
    r.unitName = "" \/ r.iniFileContent = "" \/ ~r.hasImagePrompts
        \/ Len(r.imagePrompts) = 0

\* !parsedResponse.unitName || !parsedResponse.iniFileContent || !parsedResponse.imagePrompts
MissingFields(r) == r.unitName = "" \/ r.iniFileContent = "" \/ ~r.hasImagePrompts

\* !parsedResponse.unitName || !parsedResponse.iniFileContent
MissingFieldsFromImage(r) == r.unitName = "" \/ r.iniFileContent = ""

Thrown(op, message) == [op EXCEPT !.pc = "thrown", !.error = message]

\* variant of Sounds that maps the declared file names whether or not an
\* audio attachment came with the request
SoundsWithoutAudioTest(r, audio) ==
    IF r.hasSoundFileNames
    THEN [k \in 1..Len(r.soundFileNames) |->
            [name |-> r.soundFileNames[k], dataUrl |-> audio]]
    ELSE <<>>

\* (parsedResponse.soundFileNames && audio) ? soundFileNames.map(...) : []
Sounds(r, audio) ==
    IF r.hasSoundFileNames /\ audio # ""
    THEN [k \in 1..Len(r.soundFileNames) |->
            [name |-> r.soundFileNames[k], dataUrl |-> audio]]
    ELSE <<>>

\* variant of finalUnit that names the file after the unit, without ".ini"
finalUnitBareFileName(r, correctedIni, images, audio, now) ==
    [id |-> r.unitName \o ToString(now),
     unitName |-> r.unitName,
     iniFile |-> [name |-> r.unitName, content |-> correctedIni],
     images |-> images,
     sounds |-> Sounds(r, audio)]

\* finalUnit of generateUnit
finalUnit(r, correctedIni, images, audio, now) ==
    [id |-> r.unitName \o ToString(now),
     unitName |-> r.unitName,
     iniFile |-> [name |-> r.unitName \o ".ini", content |-> correctedIni],
     images |-> images,
     sounds |-> Sounds(r, audio)]

\* finalUnit of generateUnitFromImage
finalUnitFromImage(r, correctedIni, mimeType, base64ImageData, now) ==
    [id |-> r.unitName \o ToString(now),
     unitName |-> r.unitName,
     iniFile |-> [name |-> r.unitName \o ".ini", content |-> correctedIni],
     images |-> <<[name |-> r.unitName \o ".png",
                   dataUrl |-> "data:" \o mimeType \o ";base64," \o base64ImageData]>>,
     sounds |-> <<>>]

\* imageToProcess.dataUrl.split(',')[1]
Base64Of(dataUrl) ==
    LET k == CHOOSE i \in 1..Len(dataUrl) : Ch(dataUrl, i) = ","
    IN  SubSeq(dataUrl, k + 1, Len(dataUrl))

\* the operation once correctedIni is known: the image fan-out of generateUnit,
\* the return of generateUnitFromImage, the return of editCodeWithGemini
AfterCorrection(op, correctedIni) ==
    IF op.kind = "edit"
    THEN [op EXCEPT !.pc = "returned", !.text = correctedIni]
    ELSE IF op.kind = "generateFromImage"
    THEN [op EXCEPT !.pc = "returned",
                    !.unit = finalUnitFromImage(op.parsedResponse, correctedIni,
                                ImageMimeType, Base64Of(op.image), opCount)]
    ELSE IF Len(op.parsedResponse.imagePrompts) = 0
    THEN [op EXCEPT !.pc = "returned",
                    !.unit = finalUnit(op.parsedResponse, correctedIni, <<>>,
                                       op.audio, opCount)]
    ELSE [op EXCEPT !.pc = "awaitImages", !.text = correctedIni,
                    !.pending = 1..Len(op.parsedResponse.imagePrompts),
                    !.images = [k \in 1..Len(op.parsedResponse.imagePrompts) |->
                                  [name |-> op.parsedResponse.imagePrompts[k].imageName,
                                   dataUrl |-> ""]]]

\* variant of AfterParse that calls the corrector whatever autoFix says
AfterParseAlwaysCorrects(op, initialIni) ==
    [op EXCEPT !.pc = "awaitCorrector", !.initialIni = initialIni]

\* correctedIni = autoFix ? await validateAndCorrectIniWithAI(initialIni, ...) : initialIni
AfterParse(op, initialIni) ==
    IF op.autoFix
    THEN [op EXCEPT !.pc = "awaitCorrector", !.initialIni = initialIni]
    ELSE AfterCorrection([op EXCEPT !.initialIni = initialIni], initialIni)

\* ------------------------------------------------------------------------
\* handleSendMessage and the generation services
\* ------------------------------------------------------------------------
\* variant of SendMessageReturns without the isLoading test
SendMessageReturnsWhenEmpty(userInput) ==
    trim(userInput) = "" /\ selectedImage = "" /\ selectedAudio = ""

\* (!userInput.trim() && !selectedImage && !selectedAudio) || isLoading
SendMessageReturns(userInput) ==
    (trim(userInput) = "" /\ selectedImage = "" /\ selectedAudio = "") \/ isLoading

\* handleSendMessage up to its await
SendMessage(userInput) ==
    /\ ~SendMessageReturns(userInput)
    /\ opCount < MaxOps
    /\ chatHistory' =
         Append(chatHistory, UserMessage(userInput, selectedImage, selectedAudio))
    /\ selectedImage' = ""
    /\ selectedAudio' = ""
    /\ isLoading' = TRUE
    /\ ops' = Append(ops,
         IF selectedImage # ""
         THEN [NewOp("generateFromImage") EXCEPT !.image = selectedImage]
         ELSE [NewOp("generate") EXCEPT !.audio = selectedAudio,
                                        !.existingUnitNames = UnitNames(currentMod)])
    /\ opCount' = opCount + 1
    /\ UNCHANGED <<currentMod, isAutoFixEnabled, valVars>>

\* the generation call returns or throws; the response is parsed into the
\* local parsedResponse and its fields are tested
GenerateResponse(i, out) ==
    /\ ops[i].kind \in {"generate", "generateFromImage"}
    /\ ops[i].pc = "awaitModel"
    /\ LET op == ops[i]
           r == out.parsed
           missing == IF op.kind = "generate" THEN MissingFields(r)
                      ELSE MissingFieldsFromImage(r)
       IN  ops' = [ops EXCEPT ![i] =
                IF out.kind = "throw" THEN Thrown(op, ServiceError(out.message))
                ELSE IF out.kind = "text" THEN Thrown(op, ServiceError(JsonParseError))
                ELSE IF missing
                THEN Thrown([op EXCEPT !.parsedResponse = r],
                            ServiceError(MissingFieldsError))
                ELSE AfterParse([op EXCEPT !.parsedResponse = r], r.iniFileContent)]
    /\ UNCHANGED <<chatHistory, selectedImage, selectedAudio, currentMod, isLoading,
                   isAutoFixEnabled, opCount, valVars>>

\* validateAndCorrectIniWithAI returns response.text.trim() or throws
CorrectorResponse(i, out) ==
    /\ ops[i].pc = "awaitCorrector"
    /\ LET op == [ops[i] EXCEPT !.correctorCalls = @ + 1]
       IN  ops' = [ops EXCEPT ![i] =
                IF out.kind = "throw"
                THEN Thrown(op, IF op.kind = "edit" THEN out.message
                                ELSE ServiceError(out.message))
                ELSE AfterCorrection(op, trim(out.text))]
    /\ UNCHANGED <<chatHistory, selectedImage, selectedAudio, currentMod, isLoading,
                   isAutoFixEnabled, opCount, valVars>>

\* variant of ImageResponse that returns with the first image to arrive
\* (Promise.race in place of Promise.all)
ImageResponseFirstWins(i, k, out) ==
    /\ ops[i].pc = "awaitImages"
    /\ k \in ops[i].pending
    /\ LET op == ops[i]
           image == [name |-> op.images[k].name,
                     dataUrl |-> "data:image/png;base64," \o out.text]
       IN  ops' = [ops EXCEPT ![i] =
                IF out.kind = "throw" THEN Thrown(op, ServiceError(out.message))
                ELSE [op EXCEPT !.images = <<image>>, !.pending = {},
                                !.pc = "returned",
                                !.unit = finalUnit(op.parsedResponse, op.text, <<image>>,
                                                   op.audio, opCount)]]
    /\ UNCHANGED <<chatHistory, selectedImage, selectedAudio, currentMod, isLoading,
                   isAutoFixEnabled, opCount, valVars>>

\* one of the image requests completes; Promise.all resolves with the last one
\* and rejects with the first failure
ImageResponse(i, k, out) ==
    /\ ops[i].pc = "awaitImages"
    /\ k \in ops[i].pending
    /\ LET op == ops[i]
           images == [op.images EXCEPT ![k].dataUrl = "data:image/png;base64," \o out.text]
           pending == op.pending \ {k}
       IN  ops' = [ops EXCEPT ![i] =
                IF out.kind = "throw" THEN Thrown(op, ServiceError(out.message))
                ELSE IF pending # {}
                THEN [op EXCEPT !.images = images, !.pending = pending]
                ELSE [op EXCEPT !.images = images, !.pending = pending,
                                !.pc = "returned",
                                !.unit = finalUnit(op.parsedResponse, op.text, images,
                                                   op.audio, opCount)]]
    /\ UNCHANGED <<chatHistory, selectedImage, selectedAudio, currentMod, isLoading,
                   isAutoFixEnabled, opCount, valVars>>

\* variant of appendUnit that puts the new unit in front
appendUnitInFront(prevMod, result) ==
    LET newMod == IF prevMod.exists THEN prevMod
                  ELSE [exists |-> TRUE, name |-> "MyRustedMod", units |-> <<>>]
    IN  [newMod EXCEPT !.units = <<result>> \o newMod.units]

\* setCurrentMod(prevMod => ...) of handleSendMessage
appendUnit(prevMod, result) ==
    LET newMod == IF prevMod.exists THEN prevMod
                  ELSE [exists |-> TRUE, name |-> "MyRustedMod", units |-> <<>>]
    IN  [newMod EXCEPT !.units = Append(newMod.units, result)]

\* handleSendMessage after its await: the result is appended
GenerateApply(i) ==
    /\ ops[i].kind \in {"generate", "generateFromImage"}
    /\ ops[i].pc = "returned"
    /\ currentMod' = appendUnit(currentMod, ops[i].unit)
    /\ chatHistory' = Append(chatHistory,
         AiMessage("I've generated the '" \o ops[i].unit.unitName \o "' unit"))
    /\ isLoading' = FALSE
    /\ ops' = RemoveAt(ops, i)
    /\ UNCHANGED <<selectedImage, selectedAudio, isAutoFixEnabled, opCount, valVars>>

\* the catch and finally blocks of the three handlers
CatchPrefix(kind) ==
    IF kind = "edit" THEN "Sorry, I couldn't edit the code. "
    ELSE IF kind = "rename" THEN "Sorry, I couldn't rename the mod. "
    ELSE "Sorry, I encountered an error. "

\* variant of HandlerCatch whose catch block also clears the Mod
HandlerCatchClearsMod(i) ==
    /\ ops[i].pc = "thrown"
    /\ chatHistory' =
         Append(chatHistory, AiMessage(CatchPrefix(ops[i].kind) \o ops[i].error))
    /\ currentMod' = NoMod
    /\ isLoading' = FALSE
    /\ ops' = RemoveAt(ops, i)
    /\ UNCHANGED <<selectedImage, selectedAudio, isAutoFixEnabled, opCount, valVars>>

\* variant of HandlerCatch without the finally block: isLoading stays set
HandlerCatchWithoutFinally(i) ==
    /\ ops[i].pc = "thrown"
    /\ chatHistory' =
         Append(chatHistory, AiMessage(CatchPrefix(ops[i].kind) \o ops[i].error))
    /\ ops' = RemoveAt(ops, i)
    /\ UNCHANGED <<selectedImage, selectedAudio, currentMod, isLoading, isAutoFixEnabled,
                   opCount, valVars>>

HandlerCatch(i) ==
    /\ ops[i].pc = "thrown"
    /\ chatHistory' =
         Append(chatHistory, AiMessage(CatchPrefix(ops[i].kind) \o ops[i].error))
    /\ isLoading' = FALSE
    /\ ops' = RemoveAt(ops, i)
    /\ UNCHANGED <<selectedImage, selectedAudio, currentMod, isAutoFixEnabled, opCount,
                   valVars>>

\* ------------------------------------------------------------------------
\* handleEditCode and editCodeWithGemini
\* ------------------------------------------------------------------------
\* !instruction.trim() || !latestUnit || !currentMod || isLoading
EditCodeReturns(instruction) ==
    trim(instruction) = "" \/ ~HasLatestUnit(currentMod) \/ ~currentMod.exists
        \/ isLoading

\* handleEditCode up to its await
EditCode(instruction) ==
    /\ ~EditCodeReturns(instruction)
    /\ opCount < MaxOps
    /\ chatHistory' = Append(chatHistory,
         UserMessage("Can you modify the code for '" \o latestUnit(currentMod).unitName
                        \o "'? " \o instruction, "", ""))
    /\ isLoading' = TRUE
    /\ ops' = Append(ops,
         [NewOp("edit") EXCEPT !.existingUnitNames = UnitNames(currentMod)])
    /\ opCount' = opCount + 1
    /\ UNCHANGED <<selectedImage, selectedAudio, currentMod, isAutoFixEnabled, valVars>>

\* the edit call returns response.text.trim() or throws
EditResponse(i, out) ==
    /\ ops[i].kind = "edit"
    /\ ops[i].pc = "awaitModel"
    /\ ops' = [ops EXCEPT ![i] =
            IF out.kind = "throw" THEN Thrown(ops[i], out.message)
            ELSE AfterParse(ops[i], trim(out.text))]
    /\ UNCHANGED <<chatHistory, selectedImage, selectedAudio, currentMod, isLoading,
                   isAutoFixEnabled, opCount, valVars>>

\* variant of updatedUnits without the slice(0, -1)
updatedUnitsAppended(units, updatedUnit) == Append(units, updatedUnit)

\* variant of updatedUnits that drops the latest unit and adds nothing
updatedUnitsDropsLatest(units, updatedUnit) == SubSeq(units, 1, Len(units) - 1)

\* [...currentMod.units.slice(0, -1), updatedUnit]
updatedUnits(units, updatedUnit) ==
    Append(SubSeq(units, 1, Len(units) - 1), updatedUnit)

\* variant of replaceLatestUnit that rebuilds the unit without its images and sounds
replaceLatestUnitWithoutAssets(mod, updatedCode) ==
    LET updatedUnit == [latestUnit(mod) EXCEPT !.iniFile.content = updatedCode,
                                               !.images = <<>>, !.sounds = <<>>]
    IN  [mod EXCEPT !.units = updatedUnits(mod.units, updatedUnit)]

\* { ...currentMod, units: updatedUnits } from the mod the handler captured
replaceLatestUnit(mod, updatedCode) ==
    LET updatedUnit == [latestUnit(mod) EXCEPT !.iniFile.content = updatedCode]
    IN  [mod EXCEPT !.units = updatedUnits(mod.units, updatedUnit)]

\* handleEditCode after its await
EditApply(i) ==
    /\ ops[i].kind = "edit"
    /\ ops[i].pc = "returned"
    /\ currentMod' = replaceLatestUnit(ops[i].mod, ops[i].text)
    /\ chatHistory' =
         Append(chatHistory, AiMessage("I've updated the code based on your request."))
    /\ isLoading' = FALSE
    /\ ops' = RemoveAt(ops, i)
    /\ UNCHANGED <<selectedImage, selectedAudio, isAutoFixEnabled, opCount, valVars>>

\* ------------------------------------------------------------------------
\* handleUpdateModName and generateModName
\* ------------------------------------------------------------------------
\* !modNameInput.trim() || !currentMod || isLoading
UpdateModNameReturns(modNameInput) ==
    trim(modNameInput) = "" \/ ~currentMod.exists \/ isLoading

UpdateModName(modNameInput) ==
    /\ ~UpdateModNameReturns(modNameInput)
    /\ opCount < MaxOps
    /\ chatHistory' = Append(chatHistory,
         UserMessage("Please rename the mod based on this suggestion: " \o modNameInput,
                     "", ""))
    /\ isLoading' = TRUE
    /\ ops' = Append(ops, NewOp("rename"))
    /\ opCount' = opCount + 1
    /\ UNCHANGED <<selectedImage, selectedAudio, currentMod, isAutoFixEnabled, valVars>>

\* generateModName: response.text.trim().replace(/[^a-zA-Z0-9_]/g, '')
RenameResponse(i, out) ==
    /\ ops[i].kind = "rename"
    /\ ops[i].pc = "awaitModel"
    /\ ops' = [ops EXCEPT ![i] =
            IF out.kind = "throw" THEN Thrown(ops[i], out.message)
            ELSE [ops[i] EXCEPT !.pc = "returned", !.text = Sanitize(trim(out.text))]]
    /\ UNCHANGED <<chatHistory, selectedImage, selectedAudio, currentMod, isLoading,
                   isAutoFixEnabled, opCount, valVars>>

\* variant of renameMod that builds the renamed Mod without the units
renameModWithoutUnits(prev, newName) ==
    IF prev.exists THEN [exists |-> TRUE, name |-> newName, units |-> <<>>] ELSE NoMod

\* setCurrentMod(prev => prev ? { ...prev, name: newName } : null)
renameMod(prev, newName) == IF prev.exists THEN [prev EXCEPT !.name = newName] ELSE NoMod

RenameApply(i) ==
    /\ ops[i].kind = "rename"
    /\ ops[i].pc = "returned"
    /\ currentMod' = renameMod(currentMod, ops[i].text)
    /\ chatHistory' =
         Append(chatHistory, AiMessage("Done! I've renamed the mod to '" \o ops[i].text \o "'."))
    /\ isLoading' = FALSE
    /\ ops' = RemoveAt(ops, i)
    /\ UNCHANGED <<selectedImage, selectedAudio, isAutoFixEnabled, opCount, valVars>>

\* ------------------------------------------------------------------------
\* attachments and the auto-fix toggle
\* ------------------------------------------------------------------------
\* disabled={isLoading || !!selectedImagePreview || !!selectedAudioPreview}
AttachDisabled == isLoading \/ selectedImage # "" \/ selectedAudio # ""

\* handleImageSelect up to its await
ImageSelect ==
    /\ ~AttachDisabled
    /\ opCount < MaxOps
    /\ isLoading' = TRUE
    /\ ops' = Append(ops, [NewOp("imageSelect") EXCEPT !.pc = "awaitResize"])
    /\ opCount' = opCount + 1
    /\ UNCHANGED <<chatHistory, selectedImage, selectedAudio, currentMod,
                   isAutoFixEnabled, valVars>>

\* handleImageSelect after its await: resizeImage resolved or rejected
ImageSelectDone(i, ok) ==
    /\ ops[i].pc = "awaitResize"
    /\ IF ok
       THEN selectedImage' = ImageDataUrl /\ chatHistory' = chatHistory
       ELSE /\ selectedImage' = selectedImage
            /\ chatHistory' =
                 Append(chatHistory, AiMessage("Sorry, I couldn't process that image."))
    /\ isLoading' = FALSE
    /\ ops' = RemoveAt(ops, i)
    /\ UNCHANGED <<selectedAudio, currentMod, isAutoFixEnabled, opCount, valVars>>

\* handleAudioSelect and the FileReader's onload, taken as one step: the read
\* of a local file completes before the user's next action
AudioSelect ==
    /\ ~AttachDisabled
    /\ selectedAudio' = AudioDataUrl
    /\ UNCHANGED <<chatHistory, selectedImage, currentMod, isLoading, isAutoFixEnabled,
                   ops, opCount, valVars>>

handleImageRemove ==
    /\ selectedImage # ""
    /\ selectedImage' = ""
    /\ UNCHANGED <<chatHistory, selectedAudio, currentMod, isLoading, isAutoFixEnabled,
                   ops, opCount, valVars>>

handleAudioRemove ==
    /\ selectedAudio # ""
    /\ selectedAudio' = ""
    /\ UNCHANGED <<chatHistory, selectedImage, currentMod, isLoading, isAutoFixEnabled,
                   ops, opCount, valVars>>

\* setIsAutoFixEnabled(prev => !prev)
ToggleAutoFix ==
    /\ isAutoFixEnabled' = ~isAutoFixEnabled
    /\ UNCHANGED <<chatHistory, selectedImage, selectedAudio, currentMod, isLoading,
                   ops, opCount, valVars>>

\* ------------------------------------------------------------------------
\* The App's specification
\* ------------------------------------------------------------------------
Init == ValIdle /\ AppInit

Next ==
    \/ \E userInput \in UserTexts : SendMessage(userInput)
    \/ \E i \in 1..Len(ops), out \in GenerateOutcomes : GenerateResponse(i, out)
    \/ \E i \in 1..Len(ops), out \in CorrectorOutcomes : CorrectorResponse(i, out)
    \/ \E i \in 1..Len(ops), k \in 1..2, out \in ImageOutcomes : ImageResponse(i, k, out)
    \/ \E i \in 1..Len(ops) : GenerateApply(i)
    \/ \E i \in 1..Len(ops) : HandlerCatch(i)
    \/ \E instruction \in EditInstructions : EditCode(instruction)
    \/ \E i \in 1..Len(ops), out \in EditOutcomes : EditResponse(i, out)
    \/ \E i \in 1..Len(ops) : EditApply(i)
    \/ \E modNameInput \in ModNameInputs : UpdateModName(modNameInput)
    \/ \E i \in 1..Len(ops), out \in RenameOutcomes : RenameResponse(i, out)
    \/ \E i \in 1..Len(ops) : RenameApply(i)
    \/ ImageSelect
    \/ \E i \in 1..Len(ops), ok \in BOOLEAN : ImageSelectDone(i, ok)
    \/ AudioSelect
    \/ handleImageRemove
    \/ handleAudioRemove
    \/ ToggleAutoFix

Spec == Init /\ [][Next]_vars

\* every pending external call returns or throws, and the event loop runs the
\* continuation of every settled await; the user is under no obligation
ExternalCallsReturn ==
    /\ WF_vars(\E i \in 1..Len(ops), out \in GenerateOutcomes : GenerateResponse(i, out))
    /\ WF_vars(\E i \in 1..Len(ops), out \in CorrectorOutcomes : CorrectorResponse(i, out))
    /\ WF_vars(\E i \in 1..Len(ops), k \in 1..2, out \in ImageOutcomes :
                  ImageResponse(i, k, out))
    /\ WF_vars(\E i \in 1..Len(ops), out \in EditOutcomes : EditResponse(i, out))
    /\ WF_vars(\E i \in 1..Len(ops), out \in RenameOutcomes : RenameResponse(i, out))
    /\ WF_vars(\E i \in 1..Len(ops), ok \in BOOLEAN : ImageSelectDone(i, ok))

ContinuationsRun ==
    /\ WF_vars(\E i \in 1..Len(ops) : GenerateApply(i))
    /\ WF_vars(\E i \in 1..Len(ops) : EditApply(i))
    /\ WF_vars(\E i \in 1..Len(ops) : RenameApply(i))
    /\ WF_vars(\E i \in 1..Len(ops) : HandlerCatch(i))

\* the sessions that start at most MaxFairOps operations
NextFair == Next /\ opCount' <= MaxFairOps

SpecFair == Init /\ [][NextFair]_vars /\ ExternalCallsReturn /\ ContinuationsRun

\* ------------------------------------------------------------------------
\* Properties of the generation and edit operations (checked under Spec)
\* ------------------------------------------------------------------------
\* the value of a key/value line: what follows the colon and its white space
KvValue(l) ==
    LET t == trim(l)
        colon == SkipWs(t, SkipIdent(t, 1))
    IN  SubSeq(t, SkipWs(t, colon + 1), Len(t))

\* index of the first name line under a [core] header of the document (0 if none)
CoreNameLine(lines) ==
    LET found == {j \in 1..Len(lines) :
                    /\ KeyNamed(lines[j], "name")
                    /\ \E h \in 1..(j - 1) :
                          /\ HeaderNamed(lines[h], "core")
                          /\ \A m \in (h + 1)..(j - 1) : ~IsHeaderLine(lines[m])}
    IN  IF found = {} THEN 0 ELSE CHOOSE j \in found : \A k \in found : j <= k

\* the [core] section holds a name key whose value is v
HasCoreName(lines, v) ==
    \E j \in 1..Len(lines) :
        /\ KeyNamed(lines[j], "name") /\ KvValue(lines[j]) = v
        /\ \E h \in 1..(j - 1) :
              /\ HeaderNamed(lines[h], "core")
              /\ \A m \in (h + 1)..(j - 1) : ~IsHeaderLine(lines[m])

\* the keys of the [core] sections of a document
CoreKeys(lines) ==
    {toLowerCase(kvMatch(trim(lines[j])).g1) :
        j \in {j \in 1..Len(lines) :
                 /\ IsKvLine(lines[j])
                 /\ \E h \in 1..(j - 1) :
                       /\ HeaderNamed(lines[h], "core")
                       /\ \A m \in (h + 1)..(j - 1) : ~IsHeaderLine(lines[m])}}

\* the image file names the image-bearing keys (image, image_turret, ...) name
ReferencedImages(lines) ==
    {KvValue(lines[j]) :
        j \in {j \in 1..Len(lines) :
                 /\ IsKvLine(lines[j])
                 /\ startsWith(toLowerCase(kvMatch(trim(lines[j])).g1), "image")}}

ImageNames(unit) == {unit.images[k].name : k \in 1..Len(unit.images)}

\* a generation service has returned the unit it hands to the aggregator
GenerationReturned(op) ==
    op.kind \in {"generate", "generateFromImage"} /\ op.pc = "returned"

\* C1: every unit a generation operation hands to the aggregator has, under
\* [core] of iniFile.content, a name key whose value is the unit's unitName,
\* with auto-fix on or off.
GeneratedUnitNameReconciled ==
    \A i \in 1..Len(ops) :
        GenerationReturned(ops[i]) =>
            HasCoreName(split(ops[i].unit.iniFile.content), ops[i].unit.unitName)

\* C2: every unit of the create-from-text path satisfies the image-filename
\* closure: the file names of unit.images are exactly the file names the
\* image-bearing keys of iniFile.content refer to.
ImageFilenameClosure ==
    \A i \in 1..Len(ops) :
        (ops[i].kind = "generate" /\ ops[i].pc = "returned") =>
            ImageNames(ops[i].unit) = ReferencedImages(split(ops[i].unit.iniFile.content))

\* the text a generation stores when no corrector call rewrote it
StoredUncorrected(op) == GenerationReturned(op) /\ op.correctorCalls = 0

\* C8: when the model's text has a name line under [core], the reconciled
\* text stored in the unit has unitName as that line's value and every other
\* line identical to the model's text, in the same order.
CoreNameOverwritten ==
    \A i \in 1..Len(ops) :
        LET in == split(ops[i].initialIni)
            out == split(ops[i].unit.iniFile.content)
            n == CoreNameLine(in)
        IN  (StoredUncorrected(ops[i]) /\ n > 0) =>
                /\ Len(out) = Len(in)
                /\ KeyNamed(out[n], "name")
                /\ KvValue(out[n]) = ops[i].unit.unitName
                /\ \A j \in 1..Len(in) : j # n => out[j] = in[j]

\* C9: when the model's text is syntactically valid and has a [core] section
\* without a name key and a [graphics] section with an image key, the
\* reconciled text stored in the unit keeps every [core] key, has
\* name: unitName under [core] and is accepted by validateIni.
ReconciledDocumentValid ==
    \A i \in 1..Len(ops) :
        LET in == split(ops[i].initialIni)
            content == ops[i].unit.iniFile.content
        IN  (/\ StoredUncorrected(ops[i])
             /\ WellFormed(in)
             /\ HasSection(in, "core") /\ ~HasKeyInSection(in, "core", "name")
             /\ HasKeyInSection(in, "graphics", "image")) =>
                /\ CoreKeys(in) \subseteq CoreKeys(split(content))
                /\ HasCoreName(split(content), ops[i].unit.unitName)
                /\ validateIni(StringValue(content)).isValid

\* C10: the completion of an edit on a Mod of n >= 1 units leaves the length
\* of units at n and units[0..n-2] as they are at that moment, whatever
\* happened since the edit started.
EditChangesOnlyLastUnit ==
    [][\A i \in 1..Len(ops) :
          EditApply(i) =>
              /\ currentMod.exists /\ Len(currentMod.units) >= 1
              /\ currentMod'.exists
              /\ Len(currentMod'.units) = Len(currentMod.units)
              /\ \A k \in 1..(Len(currentMod.units) - 1) :
                    currentMod'.units[k] = currentMod.units[k]]_vars

\* C10 witness: an edit has just completed on a Mod of two units.
TwoUnitModEdited ==
    /\ currentMod.exists /\ Len(currentMod.units) = 2
    /\ ~isLoading
    /\ Last(chatHistory).content = "I've updated the code based on your request."

\* ------------------------------------------------------------------------
\* Properties of the Mod under generate, edit and rename (checked under Spec)
\* ------------------------------------------------------------------------
IsGeneration(op) == op.kind \in {"generate", "generateFromImage"}

\* the step ends operation i: its handler has run to the end of its finally
Ends(i) == i \in 1..Len(ops) /\ ops' = RemoveAt(ops, i)

\* C11: a generation that failed (unparseable output, missing field,
\* transport error, failed image request) ends with the Mod exactly as it was
\* when the operation started: nothing appended, no Mod created, no unit
\* changed.
FailedGenerationLeavesMod ==
    [][\A i \in 1..Len(ops) :
          (IsGeneration(ops[i]) /\ ops[i].pc = "thrown" /\ Ends(i)) =>
              (currentMod' = ops[i].mod /\ currentMod = ops[i].mod)]_vars

\* C11 witness: a generation has just failed while a Mod existed.
GenerationFailedWithMod ==
    /\ ~isLoading /\ currentMod.exists
    /\ startsWith(Last(chatHistory).content, "Sorry, I encountered an error. ")

FirstUpper(s) == Len(s) > 0 /\ Ch(s, 1) \in UpperSet
FirstLower(s) == Len(s) > 0 /\ Ch(s, 1) \in {Ch(LowerLetters, i) : i \in 1..26}

\* letters and digits only, starting uppercase; or snake_case
FolderSafe(s) ==
    \/ /\ FirstUpper(s)
       /\ \A i \in 1..Len(s) : Ch(s, i) \in IdentChars \ {"_"}
    \/ /\ FirstLower(s)
       /\ \A i \in 1..Len(s) : Ch(s, i) \in IdentChars \ UpperSet

\* C12: a model-provided name that is not folder-safe is rejected, so
\* Mod.name is folder-safe in every reachable state.
ModNameFolderSafe == currentMod.exists => FolderSafe(currentMod.name)

\* C13: a rename, succeeding or failing, ends with the units sequence the
\* Mod had when the rename started, which is also the one it had just
\* before the rename ended.
RenameKeepsUnits ==
    [][\A i \in 1..Len(ops) :
          (ops[i].kind = "rename" /\ Ends(i)) =>
              /\ currentMod'.exists
              /\ currentMod'.units = ops[i].mod.units
              /\ currentMod'.units = currentMod.units]_vars

\* C13 witness: a rename has just succeeded on a Mod of two units.
TwoUnitModRenamed ==
    /\ ~isLoading /\ currentMod.exists /\ Len(currentMod.units) = 2
    /\ startsWith(Last(chatHistory).content, "Done! I've renamed the mod")
    /\ currentMod.name # "MyRustedMod"

\* C14: a generation that returned a unit ends by appending it: with no Mod
\* it creates the Mod "MyRustedMod" holding just that unit, otherwise the
\* name and the earlier units stay and the unit comes last; and no step
\* of any operation shortens units or alters it other than at its end.
UnitsGrowByAppend ==
    [][/\ \A i \in 1..Len(ops) :
            (IsGeneration(ops[i]) /\ ops[i].pc = "returned" /\ Ends(i)) =>
                /\ currentMod'.exists
                /\ currentMod'.name =
                     (IF currentMod.exists THEN currentMod.name ELSE "MyRustedMod")
                /\ currentMod'.units = currentMod.units \o <<ops[i].unit>>
       /\ Len(currentMod'.units) >= Len(currentMod.units)
       /\ Len(currentMod'.units) > Len(currentMod.units) =>
            SubSeq(currentMod'.units, 1, Len(currentMod.units)) = currentMod.units
       /\ \A k \in 1..(Len(currentMod.units) - 1) :
            currentMod'.units[k] = currentMod.units[k]]_vars

\* C14 witness: a second unit has just been appended.
SecondUnitAppended ==
    /\ ~isLoading /\ currentMod.exists /\ Len(currentMod.units) = 2
    /\ startsWith(Last(chatHistory).content, "I've generated the '")

\* C15: the unitName values of the units of the Mod are pairwise distinct.
UnitNamesDistinct ==
    \A j \in 1..Len(currentMod.units), k \in 1..Len(currentMod.units) :
        j # k => currentMod.units[j].unitName # currentMod.units[k].unitName

\* ------------------------------------------------------------------------
\* Properties of the services' steps (checked under Spec)
\* ------------------------------------------------------------------------
\* the envelope lacks unitName or the config text (absent and empty alike)
LacksNameOrText(r) == r.unitName = "" \/ r.iniFileContent = ""

\* the service threw at its test of the parsed fields
RejectedByParser(op) ==
    op.pc = "thrown" /\ op.error = "AI response was missing required fields."

\* the service went past its test of the parsed fields
AcceptedByParser(op) ==
    \/ op.pc \in {"awaitCorrector", "awaitImages", "returned"}
    \/ op.pc = "thrown" /\ ~RejectedByParser(op) /\ op.parsedResponse # NoParsed

\* C16 as stated: the parser fails the operation when the output does not
\* parse, when unitName or the config text is absent or empty and, on the
\* text and on the image path alike, when the image-description list is
\* absent; an empty list is no failure.
ParserRequiresImageListOnBothPaths ==
    \A i \in 1..Len(ops) :
        LET r == ops[i].parsedResponse
        IN  IsGeneration(ops[i]) =>
                /\ AcceptedByParser(ops[i]) =>
                      (~LacksNameOrText(r) /\ r.hasImagePrompts)
                /\ RejectedByParser(ops[i]) =>
                      (LacksNameOrText(r) \/ ~r.hasImagePrompts)

\* C16 as amended: the parser fails the operation when the output does not
\* parse, when unitName or the config text is absent or empty and, on the
\* text path, when the image-description list is absent; the image path
\* asks for no such list and accepts a response without one; an empty list
\* is no failure.
ParserRequiresImageListOnTextPath ==
    \A i \in 1..Len(ops) :
        LET r == ops[i].parsedResponse
            needsList == ops[i].kind = "generate"
        IN  IsGeneration(ops[i]) =>
                /\ AcceptedByParser(ops[i]) =>
                      (~LacksNameOrText(r) /\ (needsList => r.hasImagePrompts))
                /\ RejectedByParser(ops[i]) =>
                      (LacksNameOrText(r) \/ (needsList /\ ~r.hasImagePrompts))
                /\ (ops[i].pc = "thrown" /\ r = NoParsed) =>
                      ops[i].error \in
                          {"fetch failed",
                           "The AI returned an invalid JSON response. Please try rephrasing your request."}

\* C16 witness: a text generation went past the parser with an empty
\* image-description list.
EmptyImageListAccepted ==
    \E i \in 1..Len(ops) :
        /\ ops[i].kind = "generate" /\ ops[i].pc \in {"awaitCorrector", "returned"}
        /\ ops[i].parsedResponse.hasImagePrompts
        /\ Len(ops[i].parsedResponse.imagePrompts) = 0

\* the unit holds one image per declared entry, named and ordered as declared
HoldsDeclaredImages(unit, r) ==
    /\ Len(unit.images) = Len(r.imagePrompts)
    /\ \A k \in 1..Len(unit.images) :
          /\ unit.images[k].name = r.imagePrompts[k].imageName
          /\ unit.images[k].dataUrl # ""

\* C17: generateUnit returns its unit only when no image request is
\* outstanding, holding one image per declared entry under the declared
\* file name and in declared order; no unit of the Mod holds an image
\* without its payload.
ImagesJoinedBeforeUnit ==
    /\ \A i \in 1..Len(ops) :
          (ops[i].kind = "generate" /\ ops[i].pc = "returned") =>
              /\ ops[i].pending = {}
              /\ HoldsDeclaredImages(ops[i].unit, ops[i].parsedResponse)
    /\ \A j \in 1..Len(currentMod.units) :
          \A k \in 1..Len(currentMod.units[j].images) :
              currentMod.units[j].images[k].dataUrl # ""

\* C17 witness: a unit with two images has reached the Mod.
TwoImageUnitAppended ==
    /\ currentMod.exists
    /\ \E j \in 1..Len(currentMod.units) : Len(currentMod.units[j].images) = 2

\* the config text an operation hands back to its handler
StoredText(op) == IF op.kind = "edit" THEN op.text ELSE op.unit.iniFile.content

IniFileNamedAfterUnit ==
    \A j \in 1..Len(currentMod.units) :
        currentMod.units[j].iniFile.name = currentMod.units[j].unitName \o ".ini"

\* C19 witness: the latest unit of a renamed Mod has just been edited.
RenamedModEdited ==
    /\ currentMod.exists /\ currentMod.name # "MyRustedMod"
    /\ Len(currentMod.units) >= 1
    /\ Last(chatHistory).content = "I've updated the code based on your request."

EndsInFailure(i) ==
    /\ Ends(i)
    /\ \/ ops[i].pc = "thrown"
       \/ ops[i].pc = "awaitResize" /\ selectedImage' = selectedImage

\* the step appends one ai message that explains a failure
AppendsOneApology ==
    /\ Len(chatHistory') = Len(chatHistory) + 1
    /\ SubSeq(chatHistory', 1, Len(chatHistory)) = chatHistory
    /\ Last(chatHistory').role = "ai"
    /\ startsWith(Last(chatHistory').content, "Sorry, I ")

\* C21: every operation that starts (isLoading set) ends with isLoading
\* cleared, whether it succeeds or fails, provided every external call
\* returns or throws; a failing operation appends exactly one explanatory ai
\* message to the chat history (none while it is in flight, one when it
\* ends), and after it another operation can start.
StartedOperationEnds ==
    /\ \A n \in 1..MaxFairOps :
          (isLoading /\ opCount = n) ~> (~isLoading /\ opCount = n)
    /\ [][/\ \A i \in 1..Len(ops) : Ends(i) => isLoading' = FALSE
          /\ \A i \in 1..Len(ops) :
                EndsInFailure(i) =>
                    /\ AppendsOneApology
                    /\ ~SendMessageReturns("a fast tank")'
          /\ (Len(ops') = Len(ops) /\ Len(ops) > 0) => chatHistory' = chatHistory
          /\ Len(ops') > Len(ops) =>
                \/ chatHistory' = chatHistory
                \/ /\ Len(chatHistory') = Len(chatHistory) + 1
                   /\ Last(chatHistory').role = "user"]_vars

\* C21 witness: an operation has failed with its apology in the chat history
\* and a later operation is in flight.
OperationStartedAfterFailure ==
    /\ isLoading /\ Len(ops) = 1
    /\ \E k \in 1..Len(chatHistory) :
          /\ chatHistory[k].role = "ai"
          /\ startsWith(chatHistory[k].content, "Sorry, I ")

\* ------------------------------------------------------------------------
\* Further properties of the generation and edit operations (checked under Spec)
\* ------------------------------------------------------------------------
\* index of the first [core] header of a document (0 if none)
FirstCoreHeader(lines) ==
    LET found == {h \in 1..Len(lines) : HeaderNamed(lines[h], "core")}
    IN  IF found = {} THEN 0 ELSE CHOOSE h \in found : \A g \in found : h <= g

\* C26: when the model's text has a [core] header with no name line before
\* the next header, the text stored in the unit has name: unitName as the
\* line immediately after that header; when it has no [core] section, the
\* stored text starts with a [core] block of name: unitName and a blank
\* line; in both cases every original line is kept, unaltered and in order.
CoreNameInsertedOrPrepended ==
    \A i \in 1..Len(ops) :
        LET in == split(ops[i].initialIni)
            out == split(ops[i].unit.iniFile.content)
            h == FirstCoreHeader(in)
            nameLine == "name: " \o ops[i].unit.unitName
        IN  (StoredUncorrected(ops[i]) /\ CoreNameLine(in) = 0) =>
                IF h > 0
                THEN out = SubSeq(in, 1, h) \o <<nameLine>> \o SubSeq(in, h + 1, Len(in))
                ELSE out = <<"[core]", nameLine, "">> \o in

\* C27: an edit operation replaces only iniFile.content of the latest unit:
\* that unit's id, unitName, iniFile.name, images and sounds are the same
\* after the edit as before it (at its completion and at its start), and no
\* image or sound request is issued during an edit.
EditReplacesContentOnly ==
    [][\A i \in 1..Len(ops) :
          ops[i].kind = "edit" =>
              /\ Ends(i) /\ ops[i].pc = "returned" =>
                    /\ currentMod'.exists
                    /\ latestUnit(currentMod') =
                         [latestUnit(currentMod) EXCEPT !.iniFile.content = ops[i].text]
                    /\ latestUnit(currentMod') =
                         [latestUnit(ops[i].mod) EXCEPT !.iniFile.content = ops[i].text]
              /\ Ends(i) /\ ops[i].pc # "returned" => currentMod' = currentMod
              /\ Len(ops') = Len(ops) =>
                    /\ ops'[i].pc \in {"awaitModel", "awaitCorrector", "returned", "thrown"}
                    /\ ops'[i].pending = {} /\ ops'[i].images = <<>>
                    /\ ops'[i].audio = ""
                    /\ currentMod' = currentMod]_vars

\* C27 witness: the latest unit, which holds images and sounds, has been edited.
UnitWithAssetsEdited ==
    /\ Last(chatHistory).content = "I've updated the code based on your request."
    /\ currentMod.exists
    /\ Len(latestUnit(currentMod).images) > 0
    /\ Len(latestUnit(currentMod).sounds) > 0

\* C28: for every generation or edit operation, the allowed build targets
\* given to the prompt and to the corrector are exactly the unit names of the
\* units in the Mod when the operation starts, on the from-image path as on
\* the from-text path.
BuildTargetsAreExistingUnits ==
    \A i \in 1..Len(ops) :
        ops[i].kind \in {"generate", "generateFromImage", "edit"} =>
            ops[i].existingUnitNames = UnitNames(ops[i].mod)

\* C29: when the model declares sound file names and an audio attachment came
\* with the request, the unit's sounds hold one entry per declared file name,
\* each with the payload of that attachment; without an audio attachment the
\* unit's sounds are empty whatever the model declared.
SoundsFanOutFromOneAttachment ==
    \A i \in 1..Len(ops) :
        LET r == ops[i].parsedResponse
            sounds == ops[i].unit.sounds
        IN  GenerationReturned(ops[i]) =>
                /\ ops[i].audio = Last(chatHistory).audioUrl
                /\ (r.hasSoundFileNames /\ ops[i].audio # "") =>
                      /\ Len(sounds) = Len(r.soundFileNames)
                      /\ \A k \in 1..Len(sounds) :
                            /\ sounds[k].name = r.soundFileNames[k]
                            /\ sounds[k].dataUrl = ops[i].audio
                /\ ops[i].audio = "" => sounds = <<>>

\* C29 witness: a generation whose request carried an audio attachment has
\* returned a unit for a response that declares a sound file name.
SoundsDeclaredWithAudio ==
    \E i \in 1..Len(ops) :
        /\ GenerationReturned(ops[i])
        /\ ops[i].audio = AudioDataUrl
        /\ Len(ops[i].parsedResponse.soundFileNames) > 0
        /\ Len(ops[i].unit.sounds) > 0

\* a generation has succeeded: its confirmation is in the chat history
SomeGenerationSucceeded ==
    \E k \in 1..Len(chatHistory) :
        /\ chatHistory[k].role = "ai"
        /\ startsWith(chatHistory[k].content, "I've generated the '")

\* C30: the Mod is either absent or has at least one unit: it is absent
\* exactly until the first generation succeeds, and no edit, rename or failed
\* operation makes units empty or the Mod absent again.
ModAbsentOrNonEmpty ==
    /\ currentMod.exists <=> SomeGenerationSucceeded
    /\ currentMod.exists => Len(currentMod.units) >= 1
    /\ ~currentMod.exists => currentMod = NoMod
    /\ \A i \in 1..Len(ops) :
          ops[i].mod.exists => (currentMod.exists /\ Len(ops[i].mod.units) >= 1)

\* C30 witness: the Mod has been renamed, and the operation after that has
\* failed.
ModKeptThroughRenameAndFailure ==
    /\ currentMod.exists
    /\ currentMod.name # "MyRustedMod"
    /\ startsWith(Last(chatHistory).content, "Sorry, I ")
    /\ ops = <<>>

====
